---------------------------- MODULE Spec2Model ----------------------------
(***************************************************************************)
(* Model of brazil_fiscal_client: FiscalClient (fiscal_client.py) and the  *)
(* older SoapClient (soap_client.py).                                      *)
(*                                                                         *)
(* Text (XML payloads, patterns, replacement content) is a sequence of     *)
(* tokens.  A token is either one character ("a", "b", "LF", "CR") or one  *)
(* indivisible piece of markup (a tag, a namespace URI).                   *)
(***************************************************************************)
EXTENDS Integers, Sequences, FiniteSets, TLC

VARIABLES
    \* the placeholder step taken alone
    p_pc, p_data, p_exp, p_content, p_out,
    \* one FiscalClient instance
    client,      \* its attributes, or NoClient before construction
    adapters,    \* transport.session.adapters: mount prefix -> adapter
    verify,      \* transport.session.verify
    timeout,     \* transport.timeout
    config,      \* self.config, rewritten by every send
    soap12,      \* the client's SOAP 1.2 option
    \* the send call in progress
    pc,          \* "idle", "posting" or "done"
    call,        \* the arguments of the call
    posted,      \* the payload handed to transport.post
    history,     \* what each HTTP attempt of the call met
    resolved,    \* whether a response resolver ran for the call
    outcome,     \* what the call returned or raised
    earlier,     \* how the send before this one ended, and whether it
                 \* left another self.config than this call's
    \* several client instances and several callers
    instances,   \* the attributes of each client instance
    transports,  \* each DefaultTransport object: session adapters, session
                 \* verify, timeout
    threads      \* each caller's position in send and its local variables

prepVars == <<p_pc, p_data, p_exp, p_content, p_out>>

clientVars == <<client, adapters, verify, timeout, config, soap12>>

callVars == <<pc, call, posted, history, resolved, outcome>>

vars == <<p_pc, p_data, p_exp, p_content, p_out,
          client, adapters, verify, timeout, config, soap12,
          pc, call, posted, history, resolved, outcome, earlier,
          instances, transports, threads>>

sharedVars == <<instances, transports, threads>>

oneClientVars == <<client, adapters, verify, timeout, config, soap12,
                   pc, call, posted, history, resolved, outcome, earlier>>

(***************************************************************************)
(* Bounds of the placeholder specification.                                *)
(***************************************************************************)
MaxData == 3
MaxPat == 2
MaxContent == 2

LF == "LF"
CR == "CR"

SeqsUpTo(S, n) == UNION {[1..k -> S] : k \in 0..n}

(***************************************************************************)
(* Python str operations on token sequences.                               *)
(***************************************************************************)
Drop(s, n) == SubSeq(s, n + 1, Len(s))

StartsWith(s, pre) == Len(pre) <= Len(s) /\ SubSeq(s, 1, Len(pre)) = pre

\* sub in s
Contains(s, sub) == \E i \in 0..(Len(s) - Len(sub)) : StartsWith(Drop(s, i), sub)

\* s.replace(old, new): every non-overlapping occurrence, left to right; an
\* empty old inserts new before every character and at the end.
RECURSIVE StrReplace(_, _, _)
StrReplace(s, old, new) ==
    IF old = <<>>
    THEN IF s = <<>> THEN new
         ELSE new \o <<Head(s)>> \o StrReplace(Tail(s), old, new)
    ELSE IF s = <<>> THEN <<>>
         ELSE IF StartsWith(s, old)
              THEN new \o StrReplace(Drop(s, Len(old)), old, new)
              ELSE <<Head(s)>> \o StrReplace(Tail(s), old, new)

\* s.replace(c, "") for a single character c
StrRemove(s, c) == SelectSeq(s, LAMBDA x : x # c)

(***************************************************************************)
(* re.compile(placeholder_exp).search(data) for patterns built from        *)
(* literals, "." (any character but a newline) and "c*" (greedy).          *)
(***************************************************************************)
Lit(c) == [k |-> "lit", c |-> c]
AnyChar == [k |-> "any", c |-> "."]
Star(c) == [k |-> "star", c |-> c]

RECURSIVE LeadCount(_, _)
LeadCount(s, c) ==
    IF s # <<>> /\ Head(s) = c THEN 1 + LeadCount(Tail(s), c) ELSE 0

SetMax(S) == CHOOSE x \in S : \A y \in S : y <= x
SetMin(S) == CHOOSE x \in S : \A y \in S : x <= y

\* length of the match of pattern p anchored at the start of s, -1 if none
RECURSIVE MatchHere(_, _)
MatchHere(p, s) ==
    IF p = <<>> THEN 0
    ELSE LET h == Head(p)
             t == Tail(p)
         IN  CASE h.k = "lit" ->
                    IF s # <<>> /\ Head(s) = h.c
                    THEN LET r == MatchHere(t, Tail(s))
                         IN  IF r < 0 THEN -1 ELSE r + 1
                    ELSE -1
               [] h.k = "any" ->
                    IF s # <<>> /\ Head(s) # LF
                    THEN LET r == MatchHere(t, Tail(s))
                         IN  IF r < 0 THEN -1 ELSE r + 1
                    ELSE -1
               [] h.k = "star" ->
                    LET n == LeadCount(s, h.c)
                        ok == {j \in 0..n : MatchHere(t, Drop(s, j)) >= 0}
                    IN  IF ok = {} THEN -1
                        ELSE SetMax(ok) + MatchHere(t, Drop(s, SetMax(ok)))

NoMatch == [found |-> FALSE, text |-> <<>>]

\* exp.search(data): the leftmost match; matches[0] is its text
ReSearch(p, s) ==
    LET at == {i \in 0..Len(s) : MatchHere(p, Drop(s, i)) >= 0}
    IN  IF at = {} THEN NoMatch
        ELSE LET i == SetMin(at)
             IN  [found |-> TRUE,
                  text |-> SubSeq(s, i + 1, i + MatchHere(p, Drop(s, i)))]

(***************************************************************************)
(* The placeholder step that ends FiscalClient._prepare_fiscal_payload and *)
(* SoapClient.prepare_payload.                                             *)
(***************************************************************************)
\* (mutant) the carriage returns are left in the payload
InjectPlaceholderKeepCR(data, placeholder_exp, placeholder_content) ==
    IF placeholder_exp # <<>> /\ placeholder_content # <<>>
    THEN LET matches == ReSearch(placeholder_exp, data)
         IN  IF matches.found
             THEN StrRemove(
                      StrReplace(data, matches.text, placeholder_content),
                      LF)
             ELSE data
    ELSE data

InjectPlaceholder(data, placeholder_exp, placeholder_content) ==
    IF placeholder_exp # <<>> /\ placeholder_content # <<>>
    THEN LET matches == ReSearch(placeholder_exp, data)
         IN  IF matches.found
             THEN StrRemove(
                      StrRemove(
                          StrReplace(data, matches.text, placeholder_content),
                          LF),
                      CR)
             ELSE data
    ELSE data

(***************************************************************************)
(* Module constants of fiscal_client.py.                                   *)
(***************************************************************************)
RETRIES == 3
RETRY_ERRORS == {500, 502, 503, 504}
TIMEOUT == 20

Tamb == {"1", "2"}

TcodUfIbge ==
    {"11", "12", "13", "14", "15", "16", "17",
     "21", "22", "23", "24", "25", "26", "27", "28", "29",
     "31", "32", "33", "35",
     "41", "42", "43",
     "50", "51", "52", "53"}

SOAP11_ENV_NS == "http://schemas.xmlsoap.org/soap/envelope/"
SOAP12_ENV_NS == "http://www.w3.org/2003/05/soap-envelope"

None == "None"
NoType == [binding |-> "", part |-> "none"]
NoLocation == [origin |-> "", path |-> <<>>]

(***************************************************************************)
(* The transport session's adapter table (requests.Session.adapters).      *)
(* mount(prefix, adapter) stores the adapter under the prefix, replacing   *)
(* what was stored under it; get_adapter(url) takes the longest mounted    *)
(* prefix the URL starts with.                                             *)
(***************************************************************************)
UndefServer == "not implemented here"
Origins == {"https://srv", "https://other"}
Prefixes == {"https://"} \cup Origins \cup {UndefServer}

\* HTTPAdapter(): no retries
DefaultAdapter == [kind |-> "http", total |-> 0, forcelist |-> {}]
\* (mutant) one retry more than RETRIES
RetryAdapterOneMore ==
    [kind |-> "http", total |-> RETRIES + 1, forcelist |-> RETRY_ERRORS]

\* HTTPAdapter(max_retries=Retry(total=RETRIES, status_forcelist=RETRY_ERRORS))
RetryAdapter == [kind |-> "http", total |-> RETRIES, forcelist |-> RETRY_ERRORS]
\* Pkcs12Adapter(pkcs12_data, pkcs12_password): the certificate, no retries
Pkcs12Adapter == [kind |-> "pkcs12", total |-> 0, forcelist |-> {}]

NoAdapter == [kind |-> "none", total |-> 0, forcelist |-> {}]

\* a fresh requests.Session
SessionAdapters == [p \in Prefixes |-> IF p = "https://" THEN DefaultAdapter ELSE NoAdapter]

\* (mutant) the adapter a mount replaces is kept under a spare key
MountKeepingOld(table, prefix, adapter) ==
    IF table[prefix] = NoAdapter
    THEN [table EXCEPT ![prefix] = adapter]
    ELSE [table EXCEPT ![prefix] = adapter, ![UndefServer] = table[prefix]]

Mount(table, prefix, adapter) == [table EXCEPT ![prefix] = adapter]

PrefixLen(p) == IF p = "https://" THEN 1 ELSE 2

UrlStartsWith(origin, p) == p = "https://" \/ p = origin

GetAdapter(table, origin) ==
    LET hits == {p \in Prefixes : table[p] # NoAdapter /\ UrlStartsWith(origin, p)}
        best == CHOOSE p \in hits : \A q \in hits : PrefixLen(q) <= PrefixLen(p)
    IN  table[best]

(***************************************************************************)
(* FiscalClient.__init__                                                   *)
(***************************************************************************)
NoClient == [made |-> FALSE]

\* def _get_server: "not implemented here"
GetServer(service, uf) == UndefServer

\* the attributes __init__ stores
NewClient(ambiente, uf, fake_certificate, server, verify_ssl) ==
    [made |-> TRUE,
     ambiente |-> ambiente,
     uf |-> uf,
     fake_certificate |-> fake_certificate,
     verify_ssl |-> verify_ssl,
     service |-> "nfe",
     server |-> IF server # None THEN server ELSE GetServer("nfe", uf)]

\* the mounts of __init__ on the new session
InitMounts(server, fake_certificate) ==
    LET withRetry == Mount(SessionAdapters, server, RetryAdapter)
    IN  IF ~fake_certificate
        THEN Mount(withRetry, server, Pkcs12Adapter)
        ELSE withRetry

\* session.verify is True in a fresh session and is set only beside the
\* certificate mount
InitVerify(fake_certificate, verify_ssl) ==
    IF ~fake_certificate THEN verify_ssl ELSE TRUE

AmbienteInputs == {"1", "2", "3"}
UfInputs == {"42", "99"}
ServerInputs == {None, "https://srv"}

NoConfig == [location |-> NoLocation, input |-> NoType, output |-> NoType]

Construct ==
    /\ ~client.made
    /\ \E ambiente \in AmbienteInputs, uf \in UfInputs,
          fake_certificate \in BOOLEAN, server \in ServerInputs,
          verify_ssl \in BOOLEAN, soap12_envelope \in BOOLEAN :
          LET c == NewClient(ambiente, uf, fake_certificate, server, verify_ssl)
          IN  /\ client' = c
              /\ soap12' = soap12_envelope
              /\ adapters' = InitMounts(c.server, fake_certificate)
              /\ verify' = InitVerify(fake_certificate, verify_ssl)
              /\ timeout' = TIMEOUT
    /\ UNCHANGED <<config, callVars, earlier, prepVars, sharedVars>>

(***************************************************************************)
(* Actions, locations and the ServiceConfig of a send.                     *)
(*                                                                         *)
(* A location is an origin (scheme and host) and a path of segments.  A    *)
(* string action with an empty origin is an action name: it does not       *)
(* start with "http".                                                      *)
(***************************************************************************)
StatusPath == <<"NFeStatusServico4", "NFeStatusServico4.asmx">>

AutorizacaoPath == <<"NFeAutorizacao4", "NFeAutorizacao4.asmx">>

\* action_class.location, as the WSDL declares it
WsdlLocation(name) ==
    [origin |-> "https://wsdl",
     path |-> <<"webservices">>
              \o (IF name = "NfeAutorizacao4" THEN AutorizacaoPath ELSE StatusPath)]

ClassAction == [kind |-> "class", name |-> "NfeStatusServico4", origin |-> "", path |-> <<>>]
UrlAction(origin) == [kind |-> "str", name |-> "", origin |-> origin, path |-> <<"ws">> \o StatusPath]
AutorizacaoAction == [kind |-> "class", name |-> "NfeAutorizacao4", origin |-> "", path |-> <<>>]
NameAction == [kind |-> "str", name |-> "", origin |-> "", path |-> <<"ws">> \o StatusPath]

ActionInputs == {ClassAction, NameAction} \cup {UrlAction(o) : o \in Origins}

LastTwo(path) == SubSeq(path, Len(path) - 1, Len(path))

InputType(name) == [binding |-> name, part |-> "input"]
OutputType(name) == [binding |-> name, part |-> "output"]

\* send, lines 197-216: the location and self.config
Location(server, action) ==
    IF action.kind = "class"
    THEN [origin |-> server, path |-> <<"ws">> \o LastTwo(WsdlLocation(action.name).path)]
    ELSE IF action.origin # ""
         THEN [origin |-> action.origin, path |-> action.path]
         ELSE [origin |-> server, path |-> action.path]

\* (mutant) the configuration of the first send is kept for the later ones
ServiceConfigKept(server, action) ==
    IF config # NoConfig THEN config
    ELSE IF action.kind = "class"
         THEN [location |-> Location(server, action),
               input |-> InputType(action.name),
               output |-> OutputType(action.name)]
         ELSE [location |-> Location(server, action), input |-> NoType, output |-> NoType]

ServiceConfig(server, action) ==
    IF action.kind = "class"
    THEN [location |-> Location(server, action),
          input |-> InputType(action.name),
          output |-> OutputType(action.name)]
    ELSE [location |-> Location(server, action), input |-> NoType, output |-> NoType]

(***************************************************************************)
(* Payloads.  obj is a dictionary shaped as the envelope, holding one      *)
(* model instance as the DadosMsg content, or a model instance.            *)
(***************************************************************************)
DictObj(type) == [form |-> "dict", type |-> type]
InstanceObj(type) == [form |-> "instance", type |-> type]

PayloadTypes == {"ConsStatServ", "EnviNFe", "RetConsStatServ"}

ObjInputs ==
    {DictObj("ConsStatServ"), InstanceObj("ConsStatServ"),
     InstanceObj("EnviNFe"), InstanceObj("RetConsStatServ")}

\* send, lines 218-220: a model instance sent to an action class is wrapped
\* in the envelope dictionary
WrapObj(action, obj) ==
    IF action.kind = "class" /\ obj.form # "dict"
    THEN DictObj(obj.type)
    ELSE obj

\* serializer.render of a model instance: the XML declaration, a newline,
\* the element
ElementTokens(type) ==
    CASE type = "ConsStatServ" -> <<"<consStatServ>", "STATUS", "</consStatServ>">>
      [] type = "EnviNFe" -> <<"<enviNFe>", "<NFe/>", "</enviNFe>">>
      [] type = "RetConsStatServ" -> <<"<retConsStatServ>", "107", "</retConsStatServ>">>

XmlDeclaration == <<"<?xml?>", LF>>

RenderInstance(type) == XmlDeclaration \o ElementTokens(type)

\* serializer.render of the decoded envelope
RenderEnvelope(service, type) ==
    XmlDeclaration
    \o <<"<soapenv:Envelope", "xmlns:soapenv=", SOAP11_ENV_NS, ">",
         "<soapenv:Body>", "<DadosMsg>">>
    \o ElementTokens(type)
    \o <<"</DadosMsg>", "</soapenv:Body>", "</soapenv:Envelope>">>

\* location.split("/")[-1].split(".")[0]
ActionName(location) ==
    LET last == location.path[Len(location.path)]
    IN  CASE last = "NFeStatusServico4.asmx" -> "NFeStatusServico4"
          [] OTHER -> last

\* (mutant) the hand-written envelope declares the SOAP 1.2 namespace
GenericEnvelopeSoap12(service, location, content) ==
    <<LF, "<soapenv:Envelope", "xmlns=", "xmlns:soapenv=", SOAP12_ENV_NS, ">",
      LF, "<soapenv:Body>",
      LF, "<ns2:DadosMsg", "xmlns:ns2=", ActionName(location), ">", LF>>
    \o content
    \o <<LF, "</ns2:DadosMsg>", LF, "</soapenv:Body>", LF, "</soapenv:Envelope>", LF>>

\* the hand-written envelope of lines 265-278
GenericEnvelope(service, location, content) ==
    <<LF, "<soapenv:Envelope", "xmlns=", "xmlns:soapenv=", SOAP11_ENV_NS, ">",
      LF, "<soapenv:Body>",
      LF, "<ns2:DadosMsg", "xmlns:ns2=", ActionName(location), ">", LF>>
    \o content
    \o <<LF, "</ns2:DadosMsg>", LF, "</soapenv:Body>", LF, "</soapenv:Envelope>", LF>>

Raised(error, detail) == [kind |-> "error", error |-> error, detail |-> detail]
Returned(value) == [kind |-> "result", value |-> value]
StillRunning == [kind |-> "none"]

\* _prepare_fiscal_payload, lines 250-278.  decoded is the class the
\* DictDecoder binds the dictionary to: self.config.input, or, when that
\* is None, the class the decoder finds for the dictionary's keys (NoType
\* if it finds none).
RenderPayload(service, cfg, obj, detected) ==
    IF obj.form = "dict"
    THEN LET decoded == IF cfg.input # NoType THEN cfg.input ELSE detected
         IN  IF decoded = NoType
             THEN Raised("ParserError", "Unable to locate model")
             ELSE Returned(RenderEnvelope(service, obj.type))
    ELSE Returned(GenericEnvelope(service, cfg.location, RenderInstance(obj.type)))

\* The SOAP 1.2 option: the envelope namespace is rewritten in the rendered
\* text, before the placeholder is injected.
Soap12Rewrite(text, soap12_envelope) ==
    IF soap12_envelope
    THEN StrReplace(text, <<SOAP11_ENV_NS>>, <<SOAP12_ENV_NS>>)
    ELSE text

\* _prepare_fiscal_payload
PrepareFiscalPayload(service, cfg, obj, detected, soap12_envelope, ph) ==
    LET rendered == RenderPayload(service, cfg, obj, detected)
    IN  IF rendered.kind = "error" THEN rendered
        ELSE Returned(InjectPlaceholder(
                 Soap12Rewrite(rendered.value, soap12_envelope),
                 ph.exp, ph.content))

NoPlaceholder == [exp |-> <<>>, content |-> <<>>]
NFePlaceholder ==
    [exp |-> <<Lit("<NFe/>")>>,
     content |-> <<"<NFe>", LF, "<Signature/>", "</NFe>">>]

PlaceholderInputs == {NoPlaceholder, NFePlaceholder}

ReturnTypes == {"RetConsStatServ", "RetEnviNFe"}

(***************************************************************************)
(* Responses.  A response body is an envelope in one of the two SOAP       *)
(* namespaces whose Body holds a ResultMsg element or none; the ResultMsg  *)
(* content is a list of elements.  The parser binds each of them to an     *)
(* AnyElement: qname, text, attributes, children.                          *)
(***************************************************************************)
Leaf(qname, text) == [qname |-> qname, text |-> text]

RetConsStatServElement(cStat) ==
    [qname |-> "retConsStatServ", text |-> "  ", attributes |-> {"versao"},
     children |-> <<Leaf("cStat", cStat), Leaf("xMotivo", "Servico em Operacao")>>]

RetEnviNFeElement ==
    [qname |-> "retEnviNFe", text |-> "  ", attributes |-> {"versao"},
     children |-> <<Leaf("nRec", "1")>>]

Contents ==
    {<<>>, <<RetConsStatServElement("107")>>, <<RetConsStatServElement("108")>>,
     <<RetEnviNFeElement>>}

Bodies ==
    {[envns |-> ns, hasResultMsg |-> TRUE, content |-> c] :
        ns \in {SOAP11_ENV_NS, SOAP12_ENV_NS}, c \in Contents}
    \cup
    {[envns |-> ns, hasResultMsg |-> FALSE, content |-> <<>>] :
        ns \in {SOAP11_ENV_NS, SOAP12_ENV_NS}}

NoBody == [envns |-> "", hasResultMsg |-> FALSE, content |-> <<>>]

\* the fields and attributes of the response bindings
Fields(type) ==
    CASE type = "RetConsStatServ" -> {"cStat", "xMotivo"}
      [] type = "RetEnviNFe" -> {"nRec"}

Attributes(type) == {"versao"}

\* Dialect reconciliation before the response is parsed.
NormalizeResponse(body, soap12_envelope, raise_on_soap_mismatch) ==
    IF \/ soap12_envelope
       \/ /\ body.envns = SOAP12_ENV_NS
          /\ body.envns # SOAP11_ENV_NS
          /\ ~raise_on_soap_mismatch
    THEN [body EXCEPT !.envns = IF @ = SOAP12_ENV_NS THEN SOAP11_ENV_NS ELSE @]
    ELSE body

\* parser.from_bytes(response, self.config.output): the output binding is
\* an Envelope of the SOAP 1.1 namespace
NoResultMsg == [present |-> FALSE, content |-> <<>>]

\* (mutant) the envelope is bound whatever its namespace
ParseEnvelopeAnyNamespace(body, output) ==
    Returned([nfeResultMsg |->
                 IF body.hasResultMsg
                 THEN [present |-> TRUE, content |-> body.content]
                 ELSE NoResultMsg])

ParseEnvelope(body, output) ==
    IF body.envns # SOAP11_ENV_NS
    THEN Raised("ParserError", body.envns)
    ELSE Returned([nfeResultMsg |->
                      IF body.hasResultMsg
                      THEN [present |-> TRUE, content |-> body.content]
                      ELSE NoResultMsg])

\* (mutant) the qname marker is left on the element
ClearMarkersKeepQname(anyElement) == [anyElement EXCEPT !.text = None]

\* anyElement.qname = None; anyElement.text = None
ClearMarkers(anyElement) == [anyElement EXCEPT !.qname = None, !.text = None]

Node(tag, text) == [tag |-> tag, text |-> text]

\* serializer.render(obj=anyElement): the AnyElement dataclass is written
\* as an element holding its attributes, its qname and text fields when
\* they are set, and its children under their own names
RenderAnyElement(anyElement) ==
    [tag |-> "AnyElement",
     attrs |-> anyElement.attributes,
     kids |-> (IF anyElement.qname # None
               THEN <<Node("qname", anyElement.qname)>> ELSE <<>>)
              \o (IF anyElement.text # None
                  THEN <<Node("text", anyElement.text)>> ELSE <<>>)
              \o [i \in 1..Len(anyElement.children) |->
                     Node(anyElement.children[i].qname, anyElement.children[i].text)]]

\* parser.from_string(xml, return_type): the root is bound to return_type
\* whatever its name; a child or attribute the type does not declare is an
\* unknown property
ParseTyped(xml, return_type) ==
    IF /\ \A i \in 1..Len(xml.kids) : xml.kids[i].tag \in Fields(return_type)
       /\ xml.attrs \subseteq Attributes(return_type)
    THEN Returned([type |-> return_type,
                   attrs |-> xml.attrs,
                   fields |-> {<<xml.kids[i].tag, xml.kids[i].text>> :
                                  i \in 1..Len(xml.kids)}])
    ELSE Raised("ParserError", "Unknown property")

\* _xsdata_response
XsdataResponse(cfg, body, return_type) ==
    LET response == ParseEnvelope(body, cfg.output)
    IN  IF response.kind = "error" THEN response
        ELSE LET result_msg == response.value.nfeResultMsg
             IN  IF result_msg.present
                 THEN IF result_msg.content = <<>>
                      THEN Raised("IndexError", "list index out of range")
                      ELSE ParseTyped(
                               RenderAnyElement(ClearMarkers(result_msg.content[1])),
                               return_type)
                 ELSE Raised("UnboundLocalError", "xml")

\* _generic_response: Envelope -> Body -> ResultMsg -> first element, by
\* position, whatever the namespaces
GenericResponse(body, return_type) ==
    IF ~body.hasResultMsg \/ body.content = <<>>
    THEN Raised("IndexError", "list index out of range")
    ELSE LET e == body.content[1]
         IN  ParseTyped([tag |-> e.qname,
                         attrs |-> e.attributes,
                         kids |-> [i \in 1..Len(e.children) |->
                                      Node(e.children[i].qname, e.children[i].text)]],
                        return_type)

(***************************************************************************)
(* transport.post: requests sends the POST through the adapter mounted for *)
(* the URL, and urllib3 applies the adapter's Retry: a failed connection   *)
(* is retried while retries are left; a read failure or a status of the    *)
(* forcelist is retried only for a method of allowed_methods, which the    *)
(* Retry built in __init__ leaves at its default and which does not hold   *)
(* POST.  DefaultTransport then returns the content of a 200 or 500        *)
(* response and raises for any other status.                               *)
(***************************************************************************)
Method == "POST"
AllowedMethods == {"HEAD", "GET", "PUT", "DELETE", "OPTIONS", "TRACE"}

Statuses == {200, 404, 500, 502, 503, 504}
ContentStatuses == {200, 500}

ConnectError == [k |-> "connect_error", s |-> 0, body |-> NoBody]
ReadError == [k |-> "read_error", s |-> 0, body |-> NoBody]
Response(s, body) == [k |-> "status", s |-> s, body |-> body]

\* what one HTTP attempt can meet
Mets ==
    {ConnectError, ReadError}
    \cup {Response(s, NoBody) : s \in Statuses \ ContentStatuses}
    \cup {Response(s, b) : s \in ContentStatuses, b \in Bodies}

IsRetry(adapter, method, status) ==
    method \in AllowedMethods /\ status \in adapter.forcelist

\* "retry", "raise" or "return" after an attempt that followed `used` retries
RetryDecision(adapter, used, met) ==
    CASE met.k = "connect_error" ->
            IF used < adapter.total THEN "retry" ELSE "raise"
      [] met.k = "read_error" ->
            IF Method \in AllowedMethods /\ used < adapter.total
            THEN "retry" ELSE "raise"
      [] met.k = "status" ->
            IF IsRetry(adapter, Method, met.s)
            THEN IF used < adapter.total THEN "retry" ELSE "raise"
            ELSE "return"

TransportError(met) ==
    CASE met.k = "connect_error" -> Raised("ConnectionError", "connect")
      [] met.k = "read_error" -> Raised("ConnectionError", "read")
      [] met.k = "status" -> Raised("RetryError", "too many error responses")

\* send, lines 232-234, after the dialect reconciliation
ResolveResponse(action, cfg, body, return_type, soap12_envelope, raise_on_soap_mismatch) ==
    LET normal == NormalizeResponse(body, soap12_envelope, raise_on_soap_mismatch)
    IN  IF action.kind # "class"
        THEN GenericResponse(normal, return_type)
        ELSE XsdataResponse(cfg, normal, return_type)

\* (mutant) a failure of transport.post is caught and send returns nothing
EndOfSendSwallow(decision, met, action, cfg, return_type, soap12_envelope, raise_on_soap_mismatch) ==
    IF decision = "raise" \/ met.s \notin ContentStatuses
    THEN Returned([type |-> None, attrs |-> {}, fields |-> {}])
    ELSE ResolveResponse(action, cfg, met.body, return_type,
                         soap12_envelope, raise_on_soap_mismatch)

\* how send ends once transport.post has raised or returned
EndOfSend(decision, met, action, cfg, return_type, soap12_envelope, raise_on_soap_mismatch) ==
    IF decision = "raise" THEN TransportError(met)
    ELSE IF met.s \notin ContentStatuses THEN Raised("HTTPError", "status")
    ELSE ResolveResponse(action, cfg, met.body, return_type,
                         soap12_envelope, raise_on_soap_mismatch)

Resolves(decision, met) == decision = "return" /\ met.s \in ContentStatuses

\* requests refuses a URL without a scheme before any adapter is used
ValidUrl(location) == location.origin # UndefServer

NoCall ==
    [action |-> ClassAction, obj |-> DictObj("ConsStatServ"),
     placeholder |-> NoPlaceholder, return_type |-> "RetConsStatServ",
     raise_on_soap_mismatch |-> FALSE]

DetectedInputs == {NoType, InputType("NfeStatusServico4")}

\* no send came before
NoEarlier == [failed |-> FALSE, other |-> FALSE]

\* send up to transport.post
SendBegin ==
    /\ client.made
    /\ pc = "idle"
    /\ \E action \in ActionInputs, obj \in ObjInputs, ph \in PlaceholderInputs,
          return_type \in ReturnTypes, raise_on_soap_mismatch \in BOOLEAN,
          detected \in DetectedInputs :
          LET cfg == ServiceConfig(client.server, action)
              prepared == PrepareFiscalPayload(client.service, cfg,
                              WrapObj(action, obj), detected, soap12, ph)
          IN  /\ config' = cfg
              /\ call' = [action |-> action, obj |-> obj, placeholder |-> ph,
                          return_type |-> return_type,
                          raise_on_soap_mismatch |-> raise_on_soap_mismatch]
              /\ history' = <<>>
              /\ resolved' = FALSE
              /\ earlier' = [earlier EXCEPT
                                 !.other = config # NoConfig /\ config # cfg]
              /\ IF prepared.kind = "error"
                 THEN /\ posted' = <<>>
                      /\ pc' = "done"
                      /\ outcome' = prepared
                 ELSE IF ~ValidUrl(cfg.location)
                 THEN /\ posted' = prepared.value
                      /\ pc' = "done"
                      /\ outcome' = Raised("MissingSchema", "Invalid URL")
                 ELSE /\ posted' = prepared.value
                      /\ pc' = "posting"
                      /\ outcome' = StillRunning
    /\ UNCHANGED <<client, adapters, verify, timeout, soap12, prepVars, sharedVars>>

\* one HTTP attempt of transport.post and, after the last one, the rest of
\* send
Attempt ==
    /\ pc = "posting"
    /\ \E met \in Mets :
          LET adapter == GetAdapter(adapters, config.location.origin)
              decision == RetryDecision(adapter, Len(history), met)
          IN  /\ history' = Append(history, met)
              /\ IF decision = "retry"
                 THEN UNCHANGED <<pc, outcome, resolved>>
                 ELSE /\ pc' = "done"
                      /\ resolved' = Resolves(decision, met)
                      /\ outcome' = EndOfSend(decision, met, call.action, config,
                                        call.return_type, soap12,
                                        call.raise_on_soap_mismatch)
    /\ UNCHANGED <<clientVars, call, posted, earlier, prepVars, sharedVars>>

\* send has returned or raised: the caller has the outcome and the client,
\* which keeps self.config, is ready for the next send
SendEnd ==
    /\ pc = "done"
    /\ pc' = "idle"
    /\ call' = NoCall
    /\ posted' = <<>>
    /\ history' = <<>>
    /\ resolved' = FALSE
    /\ outcome' = StillRunning
    /\ earlier' = [failed |-> outcome.kind = "error", other |-> FALSE]
    /\ UNCHANGED <<clientVars, prepVars, sharedVars>>

(***************************************************************************)
(* Several client instances and several callers.                           *)
(*                                                                         *)
(* FiscalClient.__init__ calls the xsdata Client constructor, which makes  *)
(* a DefaultTransport for the instance.  SoapClient.__init__ calls no      *)
(* constructor: every SoapClient instance reads the class attribute        *)
(* `transport`, one DefaultTransport made when the class is defined.       *)
(* self.config is an attribute of the instance, assigned by send.          *)
(*                                                                         *)
(* A caller runs send in four steps, each of which reads self.config or    *)
(* the transport anew: the assignment of self.config, the preparation of   *)
(* the payload, the POST and the resolution of the response.               *)
(***************************************************************************)
Ids == {1, 2}
Tids == {1, 2}

\* SoapClient.transport
ClassTransport == 0

TransportRefs == {ClassTransport} \cup Ids

\* DefaultTransport(): a new session, timeout 2.0
FreshTransport == [adapters |-> SessionAdapters, verify |-> TRUE, timeout |-> 2]

NoInstance ==
    [made |-> FALSE, cls |-> "", server |-> "", fake_certificate |-> FALSE,
     verify_ssl |-> FALSE, transport |-> ClassTransport, config |-> NoConfig,
     writer |-> 0]

NoThread ==
    [pc |-> "idle", self |-> 0, action |-> ClassAction, again |-> FALSE,
     location |-> NoLocation, input |-> NoType, url |-> NoLocation,
     url_by |-> 0, output |-> NoType]

\* the actions the callers send
ThreadActions(cls) ==
    IF cls = "SoapClient" THEN {ClassAction, AutorizacaoAction}
    ELSE {ClassAction, UrlAction("https://other")}

\* FiscalClient(..., fake_certificate, server, verify_ssl)
NewFiscalClient(i) ==
    /\ ~instances[i].made
    /\ \E server \in Origins, fake_certificate \in BOOLEAN, verify_ssl \in BOOLEAN :
          /\ instances' = [instances EXCEPT ![i] =
                 [made |-> TRUE, cls |-> "FiscalClient", server |-> server,
                  fake_certificate |-> fake_certificate,
                  verify_ssl |-> verify_ssl, transport |-> i,
                  config |-> NoConfig, writer |-> 0]]
          /\ transports' = [transports EXCEPT ![i] =
                 [adapters |-> InitMounts(server, fake_certificate),
                  verify |-> InitVerify(fake_certificate, verify_ssl),
                  timeout |-> TIMEOUT]]
    /\ UNCHANGED <<threads, oneClientVars, prepVars>>

\* SoapClient.from_service(..., fake_certificate, verify_ssl) of a subclass
\* whose get_server gives the server
NewSoapClient(i) ==
    /\ ~instances[i].made
    /\ \E server \in Origins, fake_certificate \in BOOLEAN, verify_ssl \in BOOLEAN :
          instances' = [instances EXCEPT ![i] =
              [made |-> TRUE, cls |-> "SoapClient", server |-> server,
               fake_certificate |-> fake_certificate,
               verify_ssl |-> verify_ssl, transport |-> ClassTransport,
               config |-> NoConfig, writer |-> 0]]
    /\ UNCHANGED <<transports, threads, oneClientVars, prepVars>>

\* send: self.config = Config(...)
SendConfig(t, i) ==
    /\ threads[t].pc = "idle"
    /\ instances[i].made
    /\ \E action \in ThreadActions(instances[i].cls) :
          LET cfg == ServiceConfig(instances[i].server, action)
          IN  /\ instances' = [instances EXCEPT ![i].config = cfg, ![i].writer = t]
              /\ threads' = [threads EXCEPT ![t] =
                     [NoThread EXCEPT !.pc = "configured", !.self = i,
                                      !.action = action,
                                      !.again = instances[i].config # NoConfig,
                                      !.location = cfg.location]]
    /\ UNCHANGED <<transports, oneClientVars, prepVars>>

\* SoapClient.send, lines 152-169: the mounts of every send
SendMounts(table, server, fake_certificate) ==
    LET withRetry == Mount(table, server, RetryAdapter)
    IN  IF ~fake_certificate
        THEN Mount(withRetry, server, Pkcs12Adapter)
        ELSE withRetry

\* what a send does to the transport before it prepares the payload:
\* nothing in FiscalClient, lines 152-169 in SoapClient
SendTransport(inst, transport) ==
    IF inst.cls = "SoapClient"
    THEN [adapters |-> SendMounts(transport.adapters, inst.server,
                                  inst.fake_certificate),
          verify |-> inst.verify_ssl,
          timeout |-> TIMEOUT]
    ELSE transport

\* the type the payload, a model instance, is decoded against: the
\* instance sent to an action class is wrapped in the envelope dictionary
\* and decoded against self.config.input; the instance sent to a URL goes
\* into the generic envelope undecoded
DecodedAgainst(inst, action) ==
    IF action.kind = "class" THEN inst.config.input ELSE NoType

\* send: the transport set-up and the preparation of the payload
SendPrepare(t) ==
    /\ threads[t].pc = "configured"
    /\ LET i == threads[t].self
           inst == instances[i]
       IN  /\ transports' = [transports EXCEPT ![inst.transport] =
                  SendTransport(inst, transports[inst.transport])]
           /\ threads' = [threads EXCEPT ![t].pc = "prepared",
                  ![t].input = DecodedAgainst(inst, threads[t].action)]
    /\ UNCHANGED <<instances, oneClientVars, prepVars>>

\* (mutant) the POST goes to the server, without the path of the action
PostUrlOfServer(inst) == [origin |-> inst.server, path |-> <<>>]

\* the URL of self.transport.post(self.config.location, ...)
PostUrl(inst) == inst.config.location

\* send: the POST
SendPost(t) ==
    /\ threads[t].pc = "prepared"
    /\ LET inst == instances[threads[t].self]
       IN  threads' = [threads EXCEPT ![t].pc = "posted",
                          ![t].url = PostUrl(inst),
                          ![t].url_by = inst.writer]
    /\ UNCHANGED <<instances, transports, oneClientVars, prepVars>>

\* the type the response is parsed against: self.config.output, but for
\* the generic response of a FiscalClient send to a URL
ParsedAgainst(inst, action) ==
    IF inst.cls = "SoapClient" \/ action.kind = "class"
    THEN inst.config.output
    ELSE NoType

\* send: the resolution of the response
SendResolve(t) ==
    /\ threads[t].pc = "posted"
    /\ LET inst == instances[threads[t].self]
       IN  threads' = [threads EXCEPT ![t].pc = "done",
                          ![t].output = ParsedAgainst(inst, threads[t].action)]
    /\ UNCHANGED <<instances, transports, oneClientVars, prepVars>>

\* send returns
SendReturn(t) ==
    /\ threads[t].pc = "done"
    /\ threads' = [threads EXCEPT ![t] = NoThread]
    /\ UNCHANGED <<instances, transports, oneClientVars, prepVars>>

SharedInit ==
    /\ instances = [i \in Ids |-> NoInstance]
    /\ transports = [r \in TransportRefs |-> FreshTransport]
    /\ threads = [t \in Tids |-> NoThread]


PrepIdle ==
    /\ p_pc = "off"
    /\ p_data = <<>>
    /\ p_exp = <<>>
    /\ p_content = <<>>
    /\ p_out = <<>>

ClientInit ==
    /\ client = NoClient
    /\ adapters = SessionAdapters
    /\ verify = TRUE
    /\ timeout = 2
    /\ config = NoConfig
    /\ soap12 = FALSE
    /\ pc = "idle"
    /\ call = NoCall
    /\ posted = <<>>
    /\ history = <<>>
    /\ resolved = FALSE
    /\ outcome = StillRunning
    /\ earlier = NoEarlier
    /\ SharedInit

Init == PrepIdle /\ ClientInit

Next == Construct \/ SendBegin \/ Attempt \/ SendEnd

Spec == Init /\ [][Next]_vars

(***************************************************************************)
(* Specification of the placeholder step alone: the rendered payload, the  *)
(* pattern and the replacement are drawn from bounded sets.                *)
(***************************************************************************)
DataChars == {"a", "b", LF}
ContentChars == {"a", "c", LF, CR}
PatItems == {Lit("a"), Lit("b"), AnyChar, Star("a")}

PrepInit ==
    /\ p_pc = "rendered"
    /\ p_data \in SeqsUpTo(DataChars, MaxData)
    /\ p_exp \in SeqsUpTo(PatItems, MaxPat)
    /\ p_content \in SeqsUpTo(ContentChars, MaxContent)
    /\ p_out = <<>>
    /\ ClientInit

PreparePayload ==
    /\ p_pc = "rendered"
    /\ p_out' = InjectPlaceholder(p_data, p_exp, p_content)
    /\ p_pc' = "prepared"
    /\ UNCHANGED <<p_data, p_exp, p_content, clientVars, callVars, earlier,
                   sharedVars>>

PrepNext == PreparePayload

PrepSpec == PrepInit /\ [][PrepNext]_vars

(***************************************************************************)
(* Two callers sending on one client instance at the same time.            *)
(***************************************************************************)
ThreadNext ==
    \/ NewFiscalClient(1)
    \/ NewSoapClient(1)
    \/ \E t \in Tids :
          \/ SendConfig(t, 1)
          \/ SendPrepare(t)
          \/ SendPost(t)
          \/ SendResolve(t)
          \/ SendReturn(t)

ThreadSpec == Init /\ [][ThreadNext]_vars

(***************************************************************************)
(* One caller sending, one call after the other, on two client instances.  *)
(***************************************************************************)
PairNext ==
    \/ \E i \in Ids :
          \/ NewFiscalClient(i)
          \/ NewSoapClient(i)
          \/ SendConfig(1, i)
    \/ SendPrepare(1)
    \/ SendPost(1)
    \/ SendResolve(1)
    \/ SendReturn(1)

PairSpec == Init /\ [][PairNext]_vars


(***************************************************************************)
(* Properties.                                                             *)
(***************************************************************************)
Chars(s) == {s[i] : i \in 1..Len(s)}
NoNewline(s) == LF \notin Chars(s) /\ CR \notin Chars(s)
Stripped(s) == StrRemove(StrRemove(s, LF), CR)

\* the last HTTP attempt of the call and what the retry policy made of it
LastMet == history[Len(history)]
LastDecision ==
    RetryDecision(GetAdapter(adapters, config.location.origin),
                  Len(history) - 1, LastMet)

\* the statuses the server answered the successive attempts with (0: none)
Answered == [i \in 1..Len(history) |-> history[i].s]

\* transport.post raised: before any attempt for a URL without a scheme,
\* else on the last attempt
PostRaised ==
    \/ /\ history = <<>>
       /\ posted # <<>>
       /\ ~ValidUrl(config.location)
    \/ /\ history # <<>>
       /\ \/ LastDecision = "raise"
          \/ LastDecision = "return" /\ LastMet.s \notin ContentStatuses

TransportErrors == {"ConnectionError", "RetryError", "HTTPError", "MissingSchema"}

\* the response binding an element belongs to
ElementType(qname) ==
    CASE qname = "retConsStatServ" -> "RetConsStatServ"
      [] qname = "retEnviNFe" -> "RetEnviNFe"
      [] OTHER -> None

\* a schema-bound send that got a response with a ResultMsg whose first
\* element is of the type the caller expects
ExpectedElementReturned ==
    /\ pc = "done"
    /\ resolved
    /\ call.action.kind = "class"
    /\ LastMet.body.hasResultMsg
    /\ LastMet.body.content # <<>>
    /\ ElementType(LastMet.body.content[1].qname) = call.return_type

TypedAs(value, element, return_type) ==
    /\ value.type = return_type
    /\ value.fields = {<<element.children[i].qname, element.children[i].text>> :
                          i \in 1..Len(element.children)}
    /\ value # element

\* C1: construction returns a client only for an environment in {"1","2"}
\* and a state code among the 27 IBGE codes (and then stores them); for any
\* other value it fails instead of returning a client.
C1_ConstructionValidates ==
    client.made => client.ambiente \in Tamb /\ client.uf \in TcodUfIbge

C3_RetryOutcome ==
    pc = "done" =>
        /\ Answered \notin {<<500>>, <<500, 500>>, <<500, 500, 500>>}
        /\ Answered = <<500, 500, 200>> => outcome.kind = "result"
        /\ Answered = <<500, 500, 500, 500>> =>
               outcome.kind = "error" /\ outcome.error \in TransportErrors

\* C4 as claimed: a send makes at most 3 HTTP attempts, and an attempt
\* follows only a response whose status is 500, 502, 503 or 504.
C4_AtMostThreeAttempts ==
    /\ Len(history) <= 3
    /\ \A i \in 2..Len(history) :
          history[i - 1].k = "status" /\ history[i - 1].s \in RETRY_ERRORS

\* C4 as amended: a send makes at most 4 HTTP attempts, the first and
\* RETRIES = 3 retries, and an attempt follows only a failed connection or
\* a response whose status is 500, 502, 503 or 504; any other status ends
\* the attempts.
C4_AtMostFourAttempts ==
    /\ Len(history) <= RETRIES + 1
    /\ \A i \in 2..Len(history) :
          \/ history[i - 1].k = "connect_error"
          \/ history[i - 1].k = "status" /\ history[i - 1].s \in RETRY_ERRORS

C4_Witness ==
    /\ pc = "done"
    /\ Len(history) = 4
    /\ \A i \in 1..3 : history[i].k = "connect_error"
    /\ LastMet.k = "status"

\* the payload of the call was handed to transport.post
HandedToTransport == posted # <<>>

Supplied == p_exp # <<>> /\ p_content # <<>>
Matches == ReSearch(p_exp, p_data)

\* C7 as claimed: when the pattern matches, the output holds the
\* replacement verbatim, no longer holds the matched text and holds no \n
\* or \r; when it does not match, the output is the rendered payload.
C7_PlaceholderSubstitution ==
    p_pc = "prepared" /\ Supplied =>
        IF Matches.found
        THEN /\ Contains(p_out, p_content)
             /\ ~Contains(p_out, Matches.text)
             /\ NoNewline(p_out)
        ELSE p_out = p_data

\* C7 as amended: when the pattern matches, the output holds no \n or \r
\* and holds the replacement with its \n and \r removed; it no longer holds
\* the matched text if that text is not empty and shares no character with
\* the replacement, the replacement is more than newlines and the rendered
\* payload has no \n or \r.  When the pattern does not match, or the
\* pattern or the replacement is empty, the output is the rendered payload.
C7_PlaceholderAmended ==
    p_pc = "prepared" =>
        IF Supplied /\ Matches.found
        THEN /\ NoNewline(p_out)
             /\ Contains(p_out, Stripped(p_content))
             /\ (/\ Matches.text # <<>>
                 /\ Chars(Matches.text) \cap Chars(p_content) = {}
                 /\ Stripped(p_content) # <<>>
                 /\ NoNewline(p_data))
                => ~Contains(p_out, Matches.text)
        ELSE p_out = p_data

C7_Witness ==
    /\ p_pc = "prepared"
    /\ Supplied
    /\ Matches.found
    /\ Len(Matches.text) = 2
    /\ CR \in Chars(p_content)
    /\ LF \in Chars(p_data)
    /\ p_out # p_data

\* C8: when transport.post fails, send raises that failure, returns no
\* result and resolves no response.
C8_TransportFailurePropagates ==
    pc = "done" /\ PostRaised =>
        /\ outcome.kind = "error"
        /\ outcome.error \in TransportErrors
        /\ ~resolved

C8_Witness ==
    /\ pc = "done"
    /\ Len(history) = RETRIES + 1
    /\ LastMet.k = "connect_error"
    /\ outcome = Raised("ConnectionError", "connect")

\* the model instances an action class takes as its DadosMsg content
InputPayloadType(name) == "ConsStatServ"

\* C9: a send whose payload is a model instance that is not of the
\* action's input type fails with InvalidInput before any POST.
C9_InputTypeChecked ==
    /\ pc # "idle"
    /\ call.action.kind = "class"
    /\ call.obj.form = "instance"
    /\ call.obj.type # InputPayloadType(call.action.name)
    => /\ pc = "done"
       /\ history = <<>>
       /\ outcome.kind = "error"
       /\ outcome.error = "InvalidInput"

\* C10: a schema-bound send whose parsed response has no ResultMsg, or an
\* empty ResultMsg content, fails with the EmptyResult error.
C10_EmptyResult ==
    /\ pc = "done"
    /\ resolved
    /\ call.action.kind = "class"
    /\ LastMet.body.envns = SOAP11_ENV_NS
    /\ ~LastMet.body.hasResultMsg \/ LastMet.body.content = <<>>
    => outcome = Raised("EmptyResult", "no content")

\* C11: once the client is constructed, and at every POST it issues, the
\* session's verification setting equals the verify_ssl flag, whatever the
\* fake_certificate flag.
C11_VerifyFollowsFlag ==
    client.made => verify = client.verify_ssl

\* which envelope the payload handed to transport.post is
GenericEnvelopeSent == Contains(posted, <<"<ns2:DadosMsg">>)
SchemaBoundEnvelopeSent == Contains(posted, <<"<DadosMsg>">>)

\* the body the resolvers are given
ResolvedBody == NormalizeResponse(LastMet.body, soap12, call.raise_on_soap_mismatch)

\* C12: a send whose action is a URL or an action name serializes the
\* request with the hand-built generic envelope, for a model instance and
\* for a dictionary, and resolves the response by the generic path; a send
\* whose action is an action class uses the schema-bound envelope and the
\* schema-bound resolution.
C12_EnvelopeMode ==
    pc # "idle" =>
        IF call.action.kind = "str"
        THEN /\ GenericEnvelopeSent
             /\ ~SchemaBoundEnvelopeSent
             /\ resolved => outcome = GenericResponse(ResolvedBody, call.return_type)
        ELSE /\ SchemaBoundEnvelopeSent
             /\ ~GenericEnvelopeSent
             /\ resolved => outcome = XsdataResponse(config, ResolvedBody, call.return_type)

\* what an adapter brings to the requests it serves
HasRetryPolicy(adapter) == adapter.total = RETRIES /\ adapter.forcelist = RETRY_ERRORS
HasCertificate(adapter) == adapter.kind = "pkcs12"

\* a POST of the call in progress was issued
PostIssued == history # <<>>

\* C13: when a send issues its POST, whatever the form of its action, the
\* retry policy and, unless fake_certificate is set, the client certificate
\* are mounted for the scheme and host of the URL it posts to.
C13_MountedBeforePost ==
    PostIssued =>
        LET mounted == adapters[config.location.origin]
        IN  /\ HasRetryPolicy(mounted)
            /\ ~client.fake_certificate => HasCertificate(mounted)

\* C14: on a client built with a real certificate, the adapter mounted for
\* the server host carries both the retry policy (3 retries on 500, 502,
\* 503, 504) and the PKCS#12 certificate: mounting the certificate adapter
\* does not remove the retry policy.
C14_RetryWithCertificate ==
    client.made /\ ~client.fake_certificate =>
        /\ HasCertificate(adapters[client.server])
        /\ HasRetryPolicy(adapters[client.server])

\* the types Config.from_service gives the configuration of an action
\* class, and the None a string action gets
InputOf(action) ==
    IF action.kind = "class" THEN [binding |-> action.name, part |-> "input"] ELSE NoType
OutputOf(action) ==
    IF action.kind = "class" THEN [binding |-> action.name, part |-> "output"] ELSE NoType

\* C15: in a sequence of sends on one client, the URL a call posts to, the
\* input type its payload is decoded against and the output type its
\* response is parsed against are those of that call's action, whatever the
\* sends before it were and however they ended.
C15_PerCallConfig ==
    pc # "idle" =>
        /\ config.location = Location(client.server, call.action)
        /\ config.input = InputOf(call.action)
        /\ config.output = OutputOf(call.action)
        /\ resolved =>
               outcome = ResolveResponse(call.action,
                             [location |-> Location(client.server, call.action),
                              input |-> InputOf(call.action),
                              output |-> OutputOf(call.action)],
                             LastMet.body, call.return_type, soap12,
                             call.raise_on_soap_mismatch)

\* a send to an action class that follows a failed send to a URL, and got
\* its typed result
C15_Witness ==
    /\ pc = "done"
    /\ earlier.failed
    /\ earlier.other
    /\ call.action.kind = "class"
    /\ resolved
    /\ outcome.kind = "result"
    /\ config.output = OutputOf(call.action)

\* the location a call's own action gives
OwnLocation(t) == Location(instances[threads[t].self].server, threads[t].action)

\* the locations the sends on the client of call t can have written
WrittenLocations(t) ==
    {Location(instances[threads[t].self].server, a) :
        a \in ThreadActions(instances[threads[t].self].cls)}

\* C16: with two sends running at once on one client, a call posts to the
\* location of the self.config last assigned on the client: its own when
\* no other call assigned it since, else the location another call wrote.
\* The witness is the interleaving in which a call posts to the location
\* and parses against the type of the other call's config.
C16_PostsToLastWritten ==
    \A t \in Tids :
        threads[t].pc \in {"posted", "done"} =>
            /\ threads[t].url \in WrittenLocations(t)
            /\ threads[t].url_by = t => threads[t].url = OwnLocation(t)

C16_Witness ==
    \E t \in Tids :
        /\ threads[t].pc = "done"
        /\ threads[t].action.kind = "class"
        /\ threads[t].url_by # t
        /\ threads[t].url # OwnLocation(t)
        /\ threads[t].url # threads[t].location
        /\ threads[t].output # OutputOf(threads[t].action)

\* the prefixes a table holds an adapter for
MountedPrefixes(table) == {p \in Prefixes : table[p] # NoAdapter}

\* the entry the first mount of a client leaves for its server
FirstMount(inst) == IF inst.fake_certificate THEN RetryAdapter ELSE Pkcs12Adapter

\* C17: the mounts of a send for a host that the table already holds
\* an entry for add no entry, and when the entry is the one this client's
\* first mount left, the table after the send is the table before it.
C17_IdempotentMount ==
    [][\A t \in Tids :
          threads[t].pc = "configured" /\ threads'[t].pc = "prepared" =>
              LET inst == instances[threads[t].self]
                  before == transports[inst.transport].adapters
                  after == transports'[inst.transport].adapters
              IN  /\ before[inst.server] # NoAdapter =>
                         MountedPrefixes(after) = MountedPrefixes(before)
                  /\ before[inst.server] = FirstMount(inst) => after = before
                  /\ after # before => after[inst.server] = FirstMount(inst)]_vars

\* a SoapClient that has sent before has mounted again
C17_Witness ==
    /\ threads[1].pc = "prepared"
    /\ threads[1].again
    /\ LET inst == instances[threads[1].self]
       IN  /\ inst.cls = "SoapClient"
           /\ ~inst.fake_certificate
           /\ transports[inst.transport].adapters[inst.server] = FirstMount(inst)
           /\ MountedPrefixes(transports[inst.transport].adapters)
                  = {"https://", inst.server}

\* the positions at which sub occurs in s
Occurrences(s, sub) == {i \in 0..(Len(s) - Len(sub)) : StartsWith(Drop(s, i), sub)}

\* s with its first occurrence of old, and no other, replaced by new
RECURSIVE ReplaceFirst(_, _, _)
ReplaceFirst(s, old, new) ==
    IF s = <<>> THEN <<>>
    ELSE IF StartsWith(s, old) THEN new \o Drop(s, Len(old))
    ELSE <<Head(s)>> \o ReplaceFirst(Tail(s), old, new)

\* C18: when the text of the first match occurs at more than one position
\* of the rendered payload, only the first occurrence is replaced by the
\* replacement content and the later ones stay as rendered (the \n and \r
\* of the whole payload being removed afterwards).
C18_FirstMatchOnly ==
    /\ p_pc = "prepared"
    /\ Supplied
    /\ Matches.found
    /\ Matches.text # <<>>
    /\ Cardinality(Occurrences(p_data, Matches.text)) > 1
    => p_out = Stripped(ReplaceFirst(p_data, Matches.text, p_content))

\* the instance a step is a step of: the one constructed, or the one the
\* caller's send is running on
StepOf(j) ==
    \/ instances'[j].made # instances[j].made
    \/ \E t \in Tids : threads[t].self = j \/ threads'[t].self = j

\* C19: a step that constructs or sends on one client instance leaves the
\* transport state (adapters, verify, timeout) and the ServiceConfig of
\* every other client instance as they were, for FiscalClient and for
\* SoapClient instances.
C19_InstanceIsolation ==
    [][\A j \in Ids :
          instances[j].made /\ ~StepOf(j) =>
              /\ transports'[instances'[j].transport]
                     = transports[instances[j].transport]
              /\ instances'[j].config = instances[j].config]_vars

=============================================================================
